---- MODULE Spec2Model ----
(***************************************************************************)
(* A model of the two programs of the repository:                          *)
(*   collapser.py  structural fault collapsing over a gate netlist         *)
(*   imply.py      implication and checking over Roth's five values        *)
(* Gates are named 1..n in gate-map order.  The module cframe (Circuit,    *)
(* Roth, Fault, FaultClass) is not among the source files; what the two    *)
(* programs use of it is modelled from sections 3 and 4.1 of the spec.     *)
(***************************************************************************)
EXTENDS Naturals, Sequences, FiniteSets, TLC

VARIABLES
    circ,        \* the circuit: gate types, fan-in and fan-out lists, outputs
    \* collapser.py
    top_fcs,     \* collapse_circuit's list of top-level classes
    heap,        \* the FaultClass objects allocated so far
    gate_queue,  \* collapse_circuit's work set
    flag,        \* the gates' processed flags
    cpc,         \* "collapse" while collapse_circuit runs, "done" after the reports
    ordered, no_dominant_faults, no_dominant_faults_check_points,
    \* imply.py
    val,         \* the gates' values
    faults,      \* main's fault list
    D_drive,     \* the -u flag
    roth_mode,   \* the reading of the algebra
    ipc,         \* "run", or how the command loop ended
    writes,      \* the assignments made by the last imply_and_check call,
                 \* forgotten when a report section is written
    last,        \* the last command, what it returned or wrote to the report
    status       \* <<>> while the process runs, then <<its exit status>>

cstate == <<top_fcs, heap, gate_queue, flag, cpc, ordered,
            no_dominant_faults, no_dominant_faults_check_points>>
istate == <<val, faults, D_drive, roth_mode, ipc, writes, last, status>>
vars == <<circ, cstate, istate>>

\* ------------------------------------------------------------------ bounds
\* Gates per netlist of the collapser's runs.
MaxGates == 4
\* Fan-ins per gate.
MaxFanin == 3
\* Primary inputs per netlist.
MaxInputs == 2

\* ---------------------------------------------------------- circuit graph
None == 0

GateTypes == {"INPUT", "BUFF", "NOT", "AND", "NAND", "OR", "NOR", "XOR", "XNOR"}
UnaryTypes == {"BUFF", "NOT"}
NaryTypes == {"AND", "NAND", "OR", "NOR", "XOR", "XNOR"}

Min(S) == CHOOSE x \in S : \A y \in S : x <= y

RECURSIVE SortedSeq(_)
SortedSeq(S) == IF S = {} THEN <<>> ELSE <<Min(S)>> \o SortedSeq(S \ {Min(S)})

Range(s) == {s[i] : i \in 1..Len(s)}

\* The fan-in lists a gate placed at position k may have: gates before it.
FaninChoices(t, k) ==
    IF t = "INPUT" THEN {<<>>}
    ELSE IF t \in UnaryTypes THEN {<<f>> : f \in 1..(k - 1)}
    ELSE {SortedSeq(F) : F \in {G \in SUBSET (1..(k - 1)) :
                                   Cardinality(G) >= 2 /\ Cardinality(G) <= MaxFanin}}

TypeChoices(c, k) ==
    {t \in GateTypes :
        IF t = "INPUT"
        THEN k <= MaxInputs /\ \A j \in 1..(k - 1) : c.gatetype[j] = "INPUT"
        ELSE k > 1}

\* Every acyclic gate graph of k gates, primary inputs first.
RECURSIVE Graphs(_)
Graphs(k) ==
    IF k = 0 THEN {[gatetype |-> <<>>, fanin |-> <<>>]}
    ELSE UNION {UNION {{[gatetype |-> Append(c.gatetype, t),
                         fanin |-> Append(c.fanin, f)] : f \in FaninChoices(t, k)}
                       : t \in TypeChoices(c, k)}
                : c \in Graphs(k - 1)}

Gates(c) == 1..Len(c.gatetype)

\* Circuit.fanout: the gates a gate drives, in gate-map order.
FanoutOf(c, g) == SortedSeq({h \in Gates(c) : g \in Range(c.fanin[h])})

Dangling(c) == {g \in Gates(c) : FanoutOf(c, g) = <<>>}

\* A circuit: a graph and its primary outputs.  Every gate that drives
\* nothing is an output; one more gate may be an output as well.
Circuits(k) ==
    UNION {{[gatetype |-> c.gatetype, fanin |-> c.fanin,
              fanout |-> [g \in Gates(c) |-> FanoutOf(c, g)],
              outputs |-> Dangling(c) \cup E]
              : E \in {{}} \cup {{g} : g \in Gates(c)}}
           : c \in Graphs(k)}

Fanout(c, g) == c.fanout[g]

\* ------------------------------------------------------------ fault model
Fault(v, s, b) == [value |-> v, stem |-> s, branch |-> b]
is_branch(f) == f.branch # None
FaultClass(f) == [equivalent |-> <<f>>, dominated |-> <<>>]

\* Allocation of a FaultClass object: its identity is its place in the heap.
Alloc(st, f) == [st EXCEPT !.heap = Append(@, FaultClass(f))]
add_equivalent(st, id, f) ==
    [st EXCEPT !.heap[id].equivalent = Append(@, f)]
add_dominated(st, id, child) ==
    [st EXCEPT !.heap[id].dominated = Append(@, child)]

\* ---------------------------------------------------------- collapse_fault
\* What collapse_fault does with a fan-in of a gate of type t: the relation
\* and the fan-in polarity it takes, for an output fault stuck at 0 ...
relation_zero_nand_equivalent(t) ==
    CASE t = "AND"  -> [rel |-> "equivalent", pol |-> 0]
      [] t = "NAND" -> [rel |-> "equivalent", pol |-> 1]
      [] t = "OR"   -> [rel |-> "dominated", pol |-> 0]
      [] t = "NOR"  -> [rel |-> "equivalent", pol |-> 1]
      [] t = "XOR"  -> [rel |-> "top", pol |-> 0]
      [] t = "XNOR" -> [rel |-> "top", pol |-> 0]
      [] t = "NOT"  -> [rel |-> "equivalent", pol |-> 1]
      [] t = "BUFF" -> [rel |-> "equivalent", pol |-> 0]
      [] OTHER      -> [rel |-> "none", pol |-> 0]

relation_zero(t) ==
    CASE t = "AND"  -> [rel |-> "equivalent", pol |-> 0]
      [] t = "NAND" -> [rel |-> "dominated", pol |-> 1]
      [] t = "OR"   -> [rel |-> "dominated", pol |-> 0]
      [] t = "NOR"  -> [rel |-> "equivalent", pol |-> 1]
      [] t = "XOR"  -> [rel |-> "top", pol |-> 0]
      [] t = "XNOR" -> [rel |-> "top", pol |-> 0]
      [] t = "NOT"  -> [rel |-> "equivalent", pol |-> 1]
      [] t = "BUFF" -> [rel |-> "equivalent", pol |-> 0]
      [] OTHER      -> [rel |-> "none", pol |-> 0]

\* ... and for an output fault stuck at 1 (XOR and XNOR: nothing).
relation_one_not_same(t) ==
    CASE t = "AND"  -> [rel |-> "dominated", pol |-> 1]
      [] t = "NAND" -> [rel |-> "equivalent", pol |-> 0]
      [] t = "OR"   -> [rel |-> "equivalent", pol |-> 1]
      [] t = "NOR"  -> [rel |-> "dominated", pol |-> 0]
      [] t = "NOT"  -> [rel |-> "equivalent", pol |-> 1]
      [] t = "BUFF" -> [rel |-> "equivalent", pol |-> 1]
      [] OTHER      -> [rel |-> "none", pol |-> 0]

relation_one(t) ==
    CASE t = "AND"  -> [rel |-> "dominated", pol |-> 1]
      [] t = "NAND" -> [rel |-> "equivalent", pol |-> 0]
      [] t = "OR"   -> [rel |-> "equivalent", pol |-> 1]
      [] t = "NOR"  -> [rel |-> "dominated", pol |-> 0]
      [] t = "NOT"  -> [rel |-> "equivalent", pol |-> 0]
      [] t = "BUFF" -> [rel |-> "equivalent", pol |-> 1]
      [] OTHER      -> [rel |-> "none", pol |-> 0]

Relation(t, v) == IF v = 0 THEN relation_zero(t) ELSE relation_one(t)

\* The fault on the line from fan-in fi into gate g: on the stem when fi
\* drives one gate, on the branch fi->g otherwise.
FaninFault(c, fi, g, v) ==
    IF Len(Fanout(c, fi)) = 1 THEN Fault(v, fi, None) ELSE Fault(v, fi, g)

\* The add_* call collapse_fault makes for one fan-in: relation r, owner
\* fltclass, the two fresh classes ficlass_sa0 and ficlass_sa1 of the fan-in.
attach_typo(r, st, fltclass, fi_flt, ficlass_sa0, ficlass_sa1) ==
    CASE r.rel = "equivalent" -> add_equivalent(st, fltclass, fi_flt)
      [] r.rel = "dominated" -> add_dominated(st, fltclass, fltclass)
      [] r.rel = "top" ->
           IF is_branch(fi_flt)
           THEN [st EXCEPT !.top = @ \o <<ficlass_sa0, ficlass_sa1>>]
           ELSE st
      [] OTHER -> st

attach(r, st, fltclass, fi_flt, ficlass_sa0, ficlass_sa1) ==
    CASE r.rel = "equivalent" -> add_equivalent(st, fltclass, fi_flt)
      [] r.rel = "dominated" ->
           add_dominated(st, fltclass, IF r.pol = 0 THEN ficlass_sa0 ELSE ficlass_sa1)
      [] r.rel = "top" ->
           IF is_branch(fi_flt)
           THEN [st EXCEPT !.top = @ \o <<ficlass_sa0, ficlass_sa1>>]
           ELSE st
      [] OTHER -> st

\* Whether collapse_fault stops at fault flt without looking at a gate.
stops_at_none(flt) == FALSE

stops_at(flt) == is_branch(flt)

RECURSIVE collapse_fault(_, _, _, _)
RECURSIVE collapse_fanin(_, _, _, _, _)

\* One pass of the loop over gate_inst.fanin, from position i on.  acc is
\* [st, fin]: the heap and top-level list so far, and fin_list so far.
collapse_fanin(c, flt, fltclass, i, acc) ==
    LET g == flt.stem
        fanin == c.fanin[g]
    IN  IF i > Len(fanin) THEN acc
        ELSE
        LET fi == fanin[i]
            fi_sa0 == FaninFault(c, fi, g, 0)
            fi_sa1 == FaninFault(c, fi, g, 1)
            st1 == Alloc(Alloc(acc.st, fi_sa0), fi_sa1)
            ficlass_sa1 == Len(st1.heap)
            ficlass_sa0 == ficlass_sa1 - 1
            r == Relation(c.gatetype[g], flt.value)
            fi_flt == IF r.pol = 0 THEN fi_sa0 ELSE fi_sa1
            st2 == attach(r, st1, fltclass, fi_flt, ficlass_sa0, ficlass_sa1)
            step ==
              CASE r.rel = "equivalent" ->
                     LET sub == collapse_fault(c, fi_flt, fltclass, st2)
                     IN  [st |-> sub.st, fin |-> acc.fin \o sub.fin]
                [] r.rel = "dominated" ->
                     LET sub == collapse_fault(c, fi_flt,
                                  IF r.pol = 0 THEN ficlass_sa0 ELSE ficlass_sa1, st2)
                     IN  [st |-> sub.st, fin |-> acc.fin \o sub.fin]
                [] r.rel = "top" -> [st |-> st2, fin |-> Append(acc.fin, fi)]
                [] OTHER -> [st |-> st2, fin |-> acc.fin]
        IN  collapse_fanin(c, flt, fltclass, i + 1, step)

collapse_fault(c, flt, fltclass, st) ==
    IF stops_at(flt) THEN [st |-> st, fin |-> <<flt.stem>>]
    ELSE IF c.gatetype[flt.stem] = "INPUT" THEN [st |-> st, fin |-> <<>>]
    ELSE collapse_fanin(c, flt, fltclass, 1, [st |-> st, fin |-> <<>>])

\* --------------------------------------------------------- collapse_circuit
\* The root class of one polarity of a popped gate, collapsed.
collapse_root(c, gname, v, st) ==
    LET f == Fault(v, gname, None)
        st1 == Alloc(st, f)
        id == Len(st1.heap)
    IN  collapse_fault(c, f, id, [st1 EXCEPT !.top = Append(@, id)])

\* ------------------------------------------------------------------ reports
RECURSIVE order(_, _, _)
RECURSIVE order_children(_, _, _, _)
order_children(h, id, i, acc) ==
    IF i > Len(h[id].dominated) THEN acc
    ELSE order_children(h, id, i + 1, order(h, h[id].dominated[i], acc))
order_leaves_only(h, id, acc) ==
    IF Len(h[id].dominated) = 0 THEN Append(acc, id)
    ELSE order_children(h, id, 1, acc)
\* The walk that lists a class after its dominated classes.
order_post(h, id, acc) ==
    IF Len(h[id].dominated) = 0 THEN Append(acc, id)
    ELSE Append(order_children(h, id, 1, acc), id)

order(h, id, acc) ==
    IF Len(h[id].dominated) = 0 THEN Append(acc, id)
    ELSE order_children(h, id, 1, Append(acc, id))

RECURSIVE find_no_dominant_faults_in_faultclass(_, _, _)
RECURSIVE nd_children(_, _, _, _)
nd_children(h, id, i, acc) ==
    IF i > Len(h[id].dominated) THEN acc
    ELSE nd_children(h, id, i + 1,
                     find_no_dominant_faults_in_faultclass(h, h[id].dominated[i], acc))
find_no_dominant_faults_in_faultclass(h, id, acc) ==
    IF Len(h[id].dominated) = 0 THEN Append(acc, id)
    ELSE nd_children(h, id, 1, acc)

\* The test the checkpoint walk makes of a class before it collects it.
is_check_point_wrong_test(c, h, id) ==
    LET flt == h[id].equivalent[1]
    IN  is_branch(flt) \/ c.gatetype[flt.stem] # "INPUT"

is_check_point(c, h, id) ==
    LET flt == h[id].equivalent[1]
    IN  Len(h[id].dominated) = 0
        /\ (is_branch(flt) \/ c.gatetype[flt.stem] = "INPUT")

RECURSIVE find_no_dominant_faults_check_points_in_faultclass(_, _, _, _)
RECURSIVE ndcp_children(_, _, _, _, _)
ndcp_children(c, h, id, i, acc) ==
    IF i > Len(h[id].dominated) THEN acc
    ELSE ndcp_children(c, h, id, i + 1,
           find_no_dominant_faults_check_points_in_faultclass(c, h, h[id].dominated[i], acc))
find_no_dominant_faults_check_points_in_faultclass(c, h, id, acc) ==
    IF is_check_point(c, h, id) THEN Append(acc, id)
    ELSE ndcp_children(c, h, id, 1, acc)

\* The walks applied to every root in top-level order.
RECURSIVE order_all(_, _, _, _)
order_all(h, roots, i, acc) ==
    IF i > Len(roots) THEN acc
    ELSE order_all(h, roots, i + 1, order(h, roots[i], acc))

RECURSIVE find_no_dominant_faults(_, _, _, _)
find_no_dominant_faults(h, roots, i, acc) ==
    IF i > Len(roots) THEN acc
    ELSE find_no_dominant_faults(h, roots, i + 1,
           find_no_dominant_faults_in_faultclass(h, roots[i], acc))

RECURSIVE find_no_dominant_faults_check_points(_, _, _, _, _)
find_no_dominant_faults_check_points(c, h, roots, i, acc) ==
    IF i > Len(roots) THEN acc
    ELSE find_no_dominant_faults_check_points(c, h, roots, i + 1,
           find_no_dominant_faults_check_points_in_faultclass(c, h, roots[i], acc))

\* ------------------------------------------------------------ the collapser
CollapserInit ==
    /\ circ \in UNION {Circuits(k) : k \in 1..MaxGates}
    /\ top_fcs = <<>>
    /\ heap = <<>>
    /\ gate_queue = circ.outputs
    /\ flag = [g \in Gates(circ) |-> FALSE]
    /\ cpc = "collapse"
    /\ ordered = <<>>
    /\ no_dominant_faults = <<>>
    /\ no_dominant_faults_check_points = <<>>
    /\ val = <<>> /\ faults = <<>> /\ D_drive = FALSE /\ roth_mode = "componentwise"
    /\ ipc = "off" /\ writes = <<>> /\ last = [cmd |-> "none"] /\ status = <<>>

\* One pass of collapse_circuit's while loop, popping gname.
ProcessGate(gname) ==
    /\ cpc = "collapse"
    /\ gname \in gate_queue
    /\ IF flag[gname]
       THEN /\ gate_queue' = gate_queue \ {gname}
            /\ UNCHANGED <<top_fcs, heap, flag>>
       ELSE LET r0 == collapse_root(circ, gname, 0, [heap |-> heap, top |-> top_fcs])
                q0 == (gate_queue \ {gname}) \cup Range(r0.fin)
                r1 == collapse_root(circ, gname, 1, r0.st)
                q1 == q0 \cup Range(r1.fin)
            IN  /\ heap' = r1.st.heap
                /\ top_fcs' = r1.st.top
                /\ gate_queue' = q1
                /\ flag' = [flag EXCEPT ![gname] = TRUE]
    /\ UNCHANGED <<circ, cpc, ordered, no_dominant_faults,
                   no_dominant_faults_check_points, istate>>

\* main after collapse_circuit returns: the three listings.
Report ==
    /\ cpc = "collapse"
    /\ gate_queue = {}
    /\ cpc' = "done"
    /\ ordered' = order_all(heap, top_fcs, 1, <<>>)
    /\ no_dominant_faults' = find_no_dominant_faults(heap, top_fcs, 1, <<>>)
    /\ no_dominant_faults_check_points' =
         find_no_dominant_faults_check_points(circ, heap, top_fcs, 1, <<>>)
    /\ UNCHANGED <<circ, top_fcs, heap, gate_queue, flag, istate>>

CollapserNext ==
    \/ \E gname \in Gates(circ) : ProcessGate(gname)
    \/ Report

SpecCollapser == CollapserInit /\ [][CollapserNext]_vars

\* ============================================================== imply.py
\* ----------------------------------------------------- five-valued algebra
Zero == "0"
One == "1"
X == "X"
D == "D"
D_b == "D_b"
Roth == {Zero, One, X, D, D_b}
Definite == {Zero, One, D, D_b}

invert(v) ==
    CASE v = Zero -> One
      [] v = One -> Zero
      [] v = D -> D_b
      [] v = D_b -> D
      [] OTHER -> X

\* The good-circuit and the faulty-circuit component of a value; 2: unknown.
Good(v) == CASE v \in {One, D} -> 1 [] v \in {Zero, D_b} -> 0 [] OTHER -> 2
Bad(v) == CASE v \in {One, D_b} -> 1 [] v \in {Zero, D} -> 0 [] OTHER -> 2

Encode(g, b) ==
    IF g = 2 \/ b = 2 THEN X
    ELSE IF g = b THEN (IF g = 1 THEN One ELSE Zero)
    ELSE IF g = 1 THEN D ELSE D_b

Bit(kind, a, b) ==
    CASE kind = "AND" -> IF a = 0 \/ b = 0 THEN 0 ELSE IF a = 2 \/ b = 2 THEN 2 ELSE 1
      [] kind = "OR" -> IF a = 1 \/ b = 1 THEN 1 ELSE IF a = 2 \/ b = 2 THEN 2 ELSE 0
      [] OTHER -> IF a = 2 \/ b = 2 THEN 2 ELSE (a + b) % 2

\* The spec gives the algebra twice: component by component (section 4.1),
\* and by the laws of section 8, under which X AND D-bar is 0 and X OR D is
\* 1.  The two differ on those pairs; a run is made under either reading.
RothModes == {"componentwise", "laws"}

op2(mode, kind, a, b) ==
    IF mode = "laws" /\ kind = "AND" /\ {a, b} = {X, D_b} THEN Zero
    ELSE IF mode = "laws" /\ kind = "OR" /\ {a, b} = {X, D} THEN One
    ELSE Encode(Bit(kind, Good(a), Good(b)), Bit(kind, Bad(a), Bad(b)))

\* Roth.operate: the n-ary reduction of a value list.
RECURSIVE operate_from(_, _, _, _, _)
operate_from(mode, kind, values, i, acc) ==
    IF i > Len(values) THEN acc
    ELSE operate_from(mode, kind, values, i + 1, op2(mode, kind, acc, values[i]))
operate(mode, kind, values) == operate_from(mode, kind, values, 2, values[1])

\* ------------------------------------------------- imply_and_check, parts
Count(inputs_list, v) == Cardinality({i \in 1..Len(inputs_list) : inputs_list[i] = v})

Max(S) == CHOOSE x \in S : \A y \in S : x >= y

\* The polarity of the active fault on location: the last one listed.
fault_value_of(faults_, location) ==
    LET hits == {i \in 1..Len(faults_) : faults_[i].stem = location}
    IN  IF hits = {} THEN X ELSE faults_[Max(hits)].value

\* The fault combination without its two conflict rows: the opposing D value
\* is stored as it comes.
new_output_of_no_conflict(fault_value, value) ==
    CASE fault_value = Zero /\ value = One -> D
      [] fault_value = One /\ value = Zero -> D_b
      [] OTHER -> value

\* The value to store given the fault on the line; "return False" on the
\* two immediate conflicts.
new_output_of(fault_value, value) ==
    CASE fault_value = Zero /\ value = One -> D
      [] fault_value = Zero /\ value = Zero -> Zero
      [] fault_value = Zero /\ value = D -> D
      [] fault_value = Zero /\ value = D_b -> "return False"
      [] fault_value = One /\ value = One -> One
      [] fault_value = One /\ value = Zero -> D_b
      [] fault_value = One /\ value = D -> "return False"
      [] fault_value = One /\ value = D_b -> D_b
      [] fault_value = X -> value
      [] OTHER -> X

\* The assignment of new_output to the gate: [val, wrote, conflict].
assign_overwrite(val_, location, new_output) ==
    [val |-> [val_ EXCEPT ![location] = new_output],
     wrote |-> <<[gate |-> location, old |-> val_[location], new |-> new_output]>>,
     conflict |-> FALSE]

assign(val_, location, new_output) ==
    IF val_[location] = X
    THEN [val |-> [val_ EXCEPT ![location] = new_output],
          wrote |-> <<[gate |-> location, old |-> X, new |-> new_output]>>,
          conflict |-> FALSE]
    ELSE [val |-> val_, wrote |-> <<>>, conflict |-> val_[location] # new_output]

\* The all-inputs-known test of the backward step.
disagrees(gate_value, output) ==
    /\ output # gate_value
    /\ ~ \/ (gate_value = D /\ output = One)
         \/ (gate_value = D_b /\ output = Zero)

AssignAll(names, v) == [i \in 1..Len(names) |-> [loc |-> names[i], value |-> v]]

NoAssign == [conflict |-> FALSE, assign |-> <<>>]

\* Backward step for AND, NAND, OR, NOR.  base: AND or OR; inv: the output
\* is inverted; nc: the input value that does not control the gate.
justify_and_or(mode, base, inv, gv, inputs_list, X_inputs_names) ==
    LET nc == IF base = "AND" THEN One ELSE Zero
        ctl == invert(nc)
        raw == operate(mode, base, inputs_list)
        output == IF inv THEN invert(raw) ELSE raw
        \* the stored values under which every input must be non-controlling
        all_nc == IF (base = "AND") = inv THEN {Zero, D_b} ELSE {One, D}
    IN  IF Len(X_inputs_names) = 0
        THEN [conflict |-> disagrees(gv, output), assign |-> <<>>]
        ELSE IF gv \in all_nc
                /\ Len(inputs_list) - Count(inputs_list, nc) = Count(inputs_list, X)
        THEN [conflict |-> FALSE, assign |-> AssignAll(X_inputs_names, nc)]
        ELSE IF gv \in (Definite \ all_nc)
                /\ Len(X_inputs_names) = 1
                /\ Count(inputs_list, ctl) = 0
                /\ (Count(inputs_list, D) = 0 \/ Count(inputs_list, D_b) = 0)
        THEN [conflict |-> FALSE, assign |-> AssignAll(X_inputs_names, ctl)]
        ELSE NoAssign

justify_buff_not(inv, gv, inputs_list, fanin) ==
    LET want == IF inv THEN invert(gv) ELSE gv
        have == IF inv THEN invert(inputs_list[1]) ELSE inputs_list[1]
    IN  IF Count(inputs_list, X) = 1
        THEN [conflict |-> FALSE, assign |-> <<[loc |-> fanin[1], value |-> want]>>]
        ELSE [conflict |-> have # gv, assign |-> <<>>]

justify_xor(mode, gv, inputs_list, X_inputs_names) ==
    LET one_number_is_even == Count(inputs_list, One) % 2 = 0
        X_number == Count(inputs_list, X)
        no_d == Count(inputs_list, D) = 0 /\ Count(inputs_list, D_b) = 0
        output == operate(mode, "XOR", inputs_list)
    IN  IF Len(X_inputs_names) = 0
        THEN [conflict |-> disagrees(gv, output), assign |-> <<>>]
        ELSE IF gv \in {One, D} /\ no_d
        THEN IF X_number = 1
             THEN [conflict |-> FALSE,
                   assign |-> AssignAll(X_inputs_names,
                                        IF one_number_is_even THEN One ELSE Zero)]
             ELSE NoAssign
        ELSE IF gv \in {Zero, D_b} /\ no_d
        THEN IF X_number = 1
             THEN [conflict |-> FALSE,
                   assign |-> AssignAll(X_inputs_names,
                                        IF one_number_is_even THEN Zero ELSE One)]
             ELSE NoAssign
        ELSE NoAssign

\* The XNOR branch as written: its third test is one level out.
justify_xnor(mode, gv, inputs_list, X_inputs_names) ==
    LET one_number_is_even == Count(inputs_list, One) % 2 = 0
        X_number == Count(inputs_list, X)
        no_d == Count(inputs_list, D) = 0 /\ Count(inputs_list, D_b) = 0
        output == invert(operate(mode, "XOR", inputs_list))
    IN  IF Len(X_inputs_names) = 0
        THEN [conflict |-> disagrees(gv, output), assign |-> <<>>]
        ELSE IF gv \in {One, D} /\ no_d
        THEN IF X_number = 1 /\ one_number_is_even
             THEN [conflict |-> FALSE, assign |-> AssignAll(X_inputs_names, Zero)]
             ELSE NoAssign
        ELSE IF X_number = 1 /\ ~one_number_is_even
        THEN [conflict |-> FALSE, assign |-> AssignAll(X_inputs_names, One)]
        ELSE IF gv \in {Zero, D_b} /\ no_d
        THEN IF X_number = 1 /\ one_number_is_even
             THEN [conflict |-> FALSE, assign |-> AssignAll(X_inputs_names, One)]
             ELSE NoAssign
        ELSE NoAssign

\* The backward step of gate g under values val_: a conflict, or
\* assign_location_values in insertion order.
justify(mode, c, val_, g) ==
    LET t == c.gatetype[g]
        fanin == c.fanin[g]
        inputs_list == [i \in 1..Len(fanin) |-> val_[fanin[i]]]
        X_inputs_names == SelectSeq(fanin, LAMBDA f : val_[f] = X)
        gv == val_[g]
    IN  CASE t = "AND" -> justify_and_or(mode, "AND", FALSE, gv, inputs_list, X_inputs_names)
          [] t = "NAND" -> justify_and_or(mode, "AND", TRUE, gv, inputs_list, X_inputs_names)
          [] t = "OR" -> justify_and_or(mode, "OR", FALSE, gv, inputs_list, X_inputs_names)
          [] t = "NOR" -> justify_and_or(mode, "OR", TRUE, gv, inputs_list, X_inputs_names)
          [] t = "BUFF" -> justify_buff_not(FALSE, gv, inputs_list, fanin)
          [] t = "NOT" -> justify_buff_not(TRUE, gv, inputs_list, fanin)
          [] t = "XOR" -> justify_xor(mode, gv, inputs_list, X_inputs_names)
          [] t = "XNOR" -> justify_xnor(mode, gv, inputs_list, X_inputs_names)
          [] OTHER -> NoAssign

\* The forward evaluation of a fan-out of type t: NOT and BUFF are
\* evaluated over the local variable value, the others over the fan-ins.
evaluate(mode, t, inputs, value) ==
    CASE t = "AND" -> operate(mode, "AND", inputs)
      [] t = "NAND" -> invert(operate(mode, "AND", inputs))
      [] t = "OR" -> operate(mode, "OR", inputs)
      [] t = "NOR" -> invert(operate(mode, "OR", inputs))
      [] t = "NOT" -> invert(value)
      [] t = "BUFF" -> value
      [] t = "XOR" -> operate(mode, "XOR", inputs)
      [] t = "XNOR" -> invert(operate(mode, "XOR", inputs))
      [] OTHER -> X

Inputs(c, val_, g) == [i \in 1..Len(c.fanin[g]) |-> val_[c.fanin[g][i]]]

\* D_frontiers as the unique-D-drive scan builds it: a gate at X is
\* appended at every fan-in from its first D or D-bar fan-in on.
RECURSIVE d_frontiers_from(_, _, _)
d_frontiers_from(c, val_, g) ==
    IF g > Len(c.gatetype) THEN <<>>
    ELSE LET ins == Inputs(c, val_, g)
             firsts == {i \in 1..Len(ins) : ins[i] \in {D, D_b}}
             times == IF firsts = {} \/ val_[g] # X THEN 0
                      ELSE Len(ins) - Min(firsts) + 1
         IN  [i \in 1..times |-> g] \o d_frontiers_from(c, val_, g + 1)

\* The local variable value after the scan: the value of the last fan-in
\* the scan read, if it read any.
value_after_scan(c, val_, value) ==
    LET with == {g \in Gates(c) : Len(c.fanin[g]) > 0}
    IN  IF with = {} THEN value
        ELSE LET g == Max(with) IN val_[c.fanin[g][Len(c.fanin[g])]]

\* What unique D-drive assigns at its D-frontier gate of type t.
drive_assignments(t, inputs, X_inputs_names) ==
    LET few == (Count(inputs, D) = 0 \/ Count(inputs, D_b) = 0)
               /\ (\/ Len(inputs) - Count(inputs, D) = Count(inputs, X)
                   \/ Len(inputs) - Count(inputs, D_b) = Count(inputs, X))
    IN  CASE t \in {"AND", "NAND"} -> IF few THEN AssignAll(X_inputs_names, One) ELSE <<>>
          [] t = "OR" -> IF few THEN AssignAll(X_inputs_names, Zero) ELSE <<>>
          [] t \in {"XOR", "XNOR"} -> AssignAll(X_inputs_names, Zero)
          [] OTHER -> <<>>

\* ------------------------------------------------------- imply_and_check
\* Frames the engine may stack before the run ends in a RecursionError.
MaxDepth == 8

\* e: [c, faults, D_drive, mode], fixed over a call.  s: [val, writes, ret]:
\* the gate values, the writes made so far, and "run" while no call has
\* returned False ("False") or overflowed the stack ("RecursionError").
RECURSIVE imply_and_check(_, _, _, _, _, _)
RECURSIVE backward_loop(_, _, _, _, _, _, _)
RECURSIVE other_path_loop(_, _, _, _, _, _, _)
RECURSIVE forward_loop(_, _, _, _, _, _, _, _)
RECURSIVE drive_loop(_, _, _, _, _)

Returned(s, r) == [s EXCEPT !.ret = r]

\* The fan-outs of loc other than location, from place j on, after loc was
\* assigned value.
other_path_loop(e, s, location, loc, value, j, depth) ==
    LET fo == e.c.fanout[loc]
    IN  IF s.ret # "run" \/ j > Len(fo) THEN s
        ELSE IF fo[j] = location
        THEN other_path_loop(e, s, location, loc, value, j + 1, depth)
        ELSE IF s.val[fo[j]] # X
        THEN other_path_loop(e,
                 imply_and_check(e, s, fo[j], value, "BACKWARD", depth + 1),
                 location, loc, value, j + 1, depth)
        ELSE LET output == evaluate(e.mode, e.c.gatetype[fo[j]],
                                     Inputs(e.c, s.val, fo[j]), value)
             IN  other_path_loop(e,
                     imply_and_check(e, s, fo[j], output, "BOTH", depth + 1),
                     location, loc, value, j + 1, depth)

\* The loop over assign_location_values from place i on.
backward_loop(e, s, location, asg, i, value, depth) ==
    IF s.ret # "run" \/ i > Len(asg) THEN [s |-> s, value |-> value]
    ELSE LET s1 == imply_and_check(e, s, asg[i].loc, asg[i].value, "BACKWARD", depth + 1)
             s2 == other_path_loop(e, s1, location, asg[i].loc, asg[i].value, 1, depth)
         IN  backward_loop(e, s2, location, asg, i + 1, asg[i].value, depth)

\* The loop of unique D-drive over its assignments.
drive_loop(e, s, asg, i, depth) ==
    IF s.ret # "run" \/ i > Len(asg) THEN s
    ELSE drive_loop(e, imply_and_check(e, s, asg[i].loc, asg[i].value, "FORWARD", depth + 1),
                    asg, i + 1, depth)

\* The loop over gate_inst.fanout from place k on.
forward_loop(e, s, location, k, value, is_only_d_frontier, D_frontiers, depth) ==
    LET fo == e.c.fanout[location]
    IN  IF s.ret # "run" \/ k > Len(fo) THEN s
        ELSE
        LET h == fo[k]
            t == e.c.gatetype[h]
            inputs == Inputs(e.c, s.val, h)
            X_inputs_names == SelectSeq(e.c.fanin[h], LAMBDA f : s.val[f] = X)
            output == evaluate(e.mode, t, inputs, value)
        IN  IF output # X
            THEN forward_loop(e, imply_and_check(e, s, h, output, "BOTH", depth + 1),
                              location, k + 1, value, is_only_d_frontier, D_frontiers, depth)
            ELSE IF s.val[h] # X
            THEN forward_loop(e,
                     imply_and_check(e, s, h, s.val[location], "BACKWARD", depth + 1),
                     location, k + 1, value, is_only_d_frontier, D_frontiers, depth)
            ELSE IF is_only_d_frontier /\ h = D_frontiers[1]
            THEN LET asg == drive_assignments(t, inputs, X_inputs_names)
                     s1 == drive_loop(e, s, asg, 1, depth)
                 IN  forward_loop(e, s1, location, k + 1,
                                  IF asg = <<>> THEN value ELSE asg[Len(asg)].value,
                                  is_only_d_frontier, D_frontiers, depth)
            ELSE forward_loop(e, s, location, k + 1, value,
                              is_only_d_frontier, D_frontiers, depth)

imply_and_check(e, s, location, value, direction, depth) ==
    IF s.ret # "run" THEN s
    ELSE IF depth > MaxDepth THEN Returned(s, "RecursionError")
    ELSE
    LET new_output == new_output_of(fault_value_of(e.faults, location), value)
    IN  IF new_output = "return False" THEN Returned(s, "False")
        ELSE
        LET a == assign(s.val, location, new_output)
            s1 == [s EXCEPT !.val = a.val, !.writes = @ \o a.wrote]
        IN  IF a.conflict THEN Returned(s, "False")
            ELSE
            LET j == justify(e.mode, e.c, s1.val, location)
            IN  IF j.conflict THEN Returned(s1, "False")
                ELSE
                LET b == backward_loop(e, s1, location, j.assign, 1, value, depth)
                    s2 == b.s
                    D_frontiers == IF e.D_drive THEN d_frontiers_from(e.c, s2.val, 1)
                                   ELSE <<>>
                    value2 == IF e.D_drive THEN value_after_scan(e.c, s2.val, b.value)
                              ELSE b.value
                    is_only_d_frontier ==
                        /\ Len(D_frontiers) = 1
                        /\ location \in Range(e.c.fanin[D_frontiers[1]])
                IN  IF s2.ret # "run" \/ direction = "BACKWARD" THEN s2
                    ELSE forward_loop(e, s2, location, 1, value2,
                                      is_only_d_frontier, D_frontiers, depth)

\* ------------------------------------------------------------ imply: main
\* Gates per netlist of the implication runs.
MaxImplyGates == 3
\* Fault commands per run.
MaxFaults == 1

ImplyCircuits ==
    {c \in UNION {Circuits(k) : k \in 1..MaxImplyGates} : c.outputs = Dangling(c)}

ImplyInit ==
    /\ circ \in ImplyCircuits
    /\ val = [g \in Gates(circ) |-> X]
    /\ faults = <<>>
    /\ D_drive \in BOOLEAN
    /\ roth_mode \in RothModes
    /\ ipc = "run"
    /\ writes = <<>>
    /\ last = [cmd |-> "none"]
    /\ status = <<>>
    /\ top_fcs = <<>> /\ heap = <<>> /\ gate_queue = {} /\ flag = <<>>
    /\ cpc = "off" /\ ordered = <<>>
    /\ no_dominant_faults = <<>> /\ no_dominant_faults_check_points = <<>>

Env == [c |-> circ, faults |-> faults, D_drive |-> D_drive, mode |-> roth_mode]

\* What imply_and_check(circ, faults, loc, value, D_drive, "BOTH") does from
\* gate values v.
Call(v, loc, value) ==
    imply_and_check(Env, [val |-> v, writes |-> <<>>, ret |-> "run"], loc, value, "BOTH", 1)

\* The Fault command.
FaultCmd(loc, value) ==
    /\ ipc = "run"
    /\ Len(faults) < MaxFaults
    /\ faults' = Append(faults, [value |-> value, stem |-> loc])
    /\ last' = [cmd |-> "Fault"]
    /\ UNCHANGED <<circ, cstate, val, D_drive, roth_mode, ipc, writes, status>>

\* The status of a process that calls exit() with no argument.
exit_status == 0
\* The status of a process whose main returns.
end_status == 0
\* The status of a process that dies of an uncaught exception.
traceback_status == 1

\* Where the command loop stands after an Imply that returned valid.
after_imply_continue(valid) == "run"

after_imply(valid) == IF valid THEN "run" ELSE "exit"

\* The Imply command: the call, and exit() when it returns False.
ImplyCmd(loc, value) ==
    /\ ipc = "run"
    /\ \E r \in {Call(val, loc, value)} :
           IF r.ret = "RecursionError"
           THEN \* the run dies with the traceback
                /\ ipc' = "RecursionError"
                /\ last' = [cmd |-> "Imply", valid |-> "RecursionError"]
                /\ status' = <<traceback_status>>
                /\ UNCHANGED <<val, writes>>
           ELSE /\ val' = r.val
                /\ writes' = r.writes
                /\ last' = [cmd |-> "Imply", valid |-> r.ret = "run"]
                /\ ipc' = after_imply(r.ret = "run")
                /\ status' = IF ipc' = "exit" THEN <<exit_status>> ELSE <<>>
    /\ UNCHANGED <<circ, cstate, faults, D_drive, roth_mode>>

\* ------------------------------------------------------------ the reports
\* Lines of the report file: a gate's name as it is written.
NameLine(g) == ToString(g)

\* The two lines "$\n\n" writes.
Closer == <<"$", "">>

\* The output report_j_front computes for gate g from its fan-in values.
j_front_output(mode, c, val_, g) ==
    LET t == c.gatetype[g]
        inputs == Inputs(c, val_, g)
    IN  CASE t \in {"AND", "XOR", "OR"} -> operate(mode, t, inputs)
          [] t = "XNOR" -> invert(operate(mode, "XOR", inputs))
          [] t = "NAND" -> invert(operate(mode, "AND", inputs))
          [] t = "BUFF" -> val_[c.fanin[g][1]]
          [] t = "NOT" -> invert(val_[c.fanin[g][1]])
          [] OTHER -> X

j_front_lists(mode, c, val_, g) ==
    /\ c.gatetype[g] # "INPUT"
    /\ j_front_output(mode, c, val_, g) = X
    /\ val_[g] \in {One, Zero, D, D_b}

RECURSIVE j_front_names(_, _, _, _)
j_front_names(mode, c, val_, g) ==
    IF g > Len(c.gatetype) THEN <<>>
    ELSE (IF j_front_lists(mode, c, val_, g) THEN <<NameLine(g)>> ELSE <<>>)
         \o j_front_names(mode, c, val_, g + 1)

report_j_front(mode, c, val_) ==
    <<"J-Frontier">> \o j_front_names(mode, c, val_, 1) \o Closer

\* error_count of the frontier loops: the fan-ins of g at D or D-bar.
error_count(c, val_, g) == Count(Inputs(c, val_, g), D) + Count(Inputs(c, val_, g), D_b)

\* The test of the D-frontier loops with the name written every time.
d_front_lists_any(c, val_, g) == error_count(c, val_, g) > 0

d_front_lists(c, val_, g) == error_count(c, val_, g) > 0 /\ val_[g] = X

RECURSIVE d_front_names(_, _, _)
d_front_names(c, val_, g) ==
    IF g > Len(c.gatetype) THEN <<>>
    ELSE (IF d_front_lists(c, val_, g) THEN <<NameLine(g)>> ELSE <<>>)
         \o d_front_names(c, val_, g + 1)

report_d_front(c, val_) == <<"D-Frontier">> \o d_front_names(c, val_, 1) \o Closer

\* X_count of x_path_check_utils: the fan-ins of fanout_name at X, gate_name
\* left out.
X_count(c, val_, gate_name, fanout_name) ==
    Cardinality({i \in 1..Len(c.fanin[fanout_name]) :
                   /\ c.fanin[fanout_name][i] # gate_name
                   /\ val_[c.fanin[fanout_name][i]] = X})

RECURSIVE x_path_check_utils(_, _, _)
x_path_check_utils(c, val_, gate_name) ==
    IF Len(c.fanout[gate_name]) = 0 THEN TRUE
    ELSE \E i \in 1..Len(c.fanout[gate_name]) :
           LET fanout_name == c.fanout[gate_name][i]
           IN  /\ \/ X_count(c, val_, gate_name, fanout_name) > 0
                  \/ c.gatetype[fanout_name] = "NOT"
               /\ x_path_check_utils(c, val_, fanout_name)

\* The loop of x_path_check from gate g on: it returns at the first
\* D-frontier gate that has an X-path.
RECURSIVE x_path_check_from(_, _, _)
x_path_check_from(c, val_, g) ==
    IF g > Len(c.gatetype) THEN Closer
    ELSE IF d_front_lists(c, val_, g) /\ x_path_check_utils(c, val_, g)
         THEN <<NameLine(g)>>
         ELSE x_path_check_from(c, val_, g + 1)

x_path_check(c, val_) == <<"X-PATH">> \o x_path_check_from(c, val_, 1)

\* The state dump of the Display command: every gate's value.
write_state(c, val_) == <<"Display">> \o val_

ReportCmd(cmd, section) ==
    /\ ipc = "run"
    /\ last' = [cmd |-> cmd, out |-> section]
    /\ writes' = <<>>
    /\ UNCHANGED <<circ, cstate, val, faults, D_drive, roth_mode, ipc, status>>

JfrontCmd == ReportCmd("Jfront", report_j_front(roth_mode, circ, val))
DfrontCmd == ReportCmd("Dfront", report_d_front(circ, val))
XpathCmd == ReportCmd("Xpath", x_path_check(circ, val))
DisplayCmd == ReportCmd("Display", write_state(circ, val))

\* The command file is read to its end: main returns.
EndOfCommands ==
    /\ ipc = "run"
    /\ ipc' = "end"
    /\ status' = <<end_status>>
    /\ UNCHANGED <<circ, cstate, val, faults, D_drive, roth_mode, writes, last>>

ImplyNext ==
    \/ \E loc \in Gates(circ) : \E value \in {Zero, One} : FaultCmd(loc, value)
    \/ \E loc \in Gates(circ) : \E value \in Roth : ImplyCmd(loc, value)
    \/ JfrontCmd
    \/ DfrontCmd
    \/ XpathCmd
    \/ DisplayCmd
    \/ EndOfCommands

SpecImply == ImplyInit /\ [][ImplyNext]_vars

\* ------------------------------------------- imply.py on one level of logic
\* Gates per netlist of the runs that follow the frontier reports further.
MaxXpathGates == 4

\* The netlists of up to MaxXpathGates gates whose gates are fed by INPUTs
\* only, every gate that drives nothing being a primary output.
XpathCircuits ==
    {c \in UNION {Circuits(k) : k \in 1..MaxXpathGates} :
       /\ c.outputs = Dangling(c)
       /\ \A g \in Gates(c) : \A f \in Range(c.fanin[g]) : c.gatetype[f] = "INPUT"}

\* A run with no Fault command.
XpathInit ==
    /\ circ \in XpathCircuits
    /\ val = [g \in Gates(circ) |-> X]
    /\ faults = <<>>
    /\ D_drive \in BOOLEAN
    /\ roth_mode \in RothModes
    /\ ipc = "run"
    /\ writes = <<>>
    /\ last = [cmd |-> "none"]
    /\ status = <<>>
    /\ top_fcs = <<>> /\ heap = <<>> /\ gate_queue = {} /\ flag = <<>>
    /\ cpc = "off" /\ ordered = <<>>
    /\ no_dominant_faults = <<>> /\ no_dominant_faults_check_points = <<>>

XpathNext ==
    \/ \E loc \in Gates(circ) : \E value \in Roth : ImplyCmd(loc, value)
    \/ DfrontCmd
    \/ XpathCmd

SpecXpath == XpathInit /\ [][XpathNext]_vars

\* ------------------------------------------------- the forest, as reported
RECURSIVE Reach(_, _)
Reach(h, S) ==
    LET T == S \cup UNION {Range(h[id].dominated) : id \in S}
    IN  IF T = S THEN S ELSE Reach(h, T)

\* The classes of the forest: the roots and their dominated descendants.
ForestIds == Reach(heap, Range(top_fcs))

\* Every occurrence of a fault in the forest: class and place in its list.
Occurrences ==
    UNION {{<<id, i>> : i \in 1..Len(heap[id].equivalent)} : id \in ForestIds}

ForestFaults == {heap[o[1]].equivalent[o[2]] : o \in Occurrences}

Representative(id) == heap[id].equivalent[1]

ChildReps(id) == {Representative(k) : k \in Range(heap[id].dominated)}

Collapsed == cpc = "done"

\* The parents of a class: places in dominated lists that hold it.
ParentPlaces(id) ==
    UNION {{<<p, i>> : i \in {j \in 1..Len(heap[p].dominated) : heap[p].dominated[j] = id}}
           : p \in 1..Len(heap)}

\* C1: after collapse_circuit no fault appears twice across the forest
\* (equivalent lists of roots and of dominated classes).
C1_NoFaultTwice ==
    Collapsed =>
      \A o1 \in Occurrences : \A o2 \in Occurrences :
         o1 # o2 => heap[o1[1]].equivalent[o1[2]] # heap[o2[1]].equivalent[o2[2]]

TableRel(t, v) ==
    CASE t = "AND" /\ v = 0 -> "equivalent"
      [] t = "AND" /\ v = 1 -> "dominated"
      [] t = "NAND" /\ v = 0 -> "dominated"
      [] t = "NAND" /\ v = 1 -> "equivalent"
      [] t = "OR" /\ v = 0 -> "dominated"
      [] t = "OR" /\ v = 1 -> "equivalent"
      [] t = "NOR" /\ v = 0 -> "equivalent"
      [] t = "NOR" /\ v = 1 -> "dominated"
      [] OTHER -> "equivalent"
TablePol(t, v) ==
    IF t \in {"AND", "OR", "BUFF"} THEN v ELSE 1 - v

NandCircuit ==
    [gatetype |-> <<"INPUT", "INPUT", "NAND">>,
     fanin |-> <<<<>>, <<>>, <<1, 2>>>>,
     fanout |-> <<<<3>>, <<3>>, <<>>>>,
     outputs |-> {3}]

\* C3: wherever the output fault of an AND, NAND, OR, NOR, NOT or BUFF gate
\* sits in a class, each fan-in line's fault of the table's polarity is in
\* that class's equivalent list (equivalent rows) or is the representative
\* of one dominated child of it (dominated rows), and the fan-in fault of
\* the other polarity is not attached to that class; for G = NAND(A, B) the
\* two roots are as the spec's scenario lists them.
C3_TableHonored ==
    /\ \A o \in Occurrences :
         LET id == o[1]
             f == heap[id].equivalent[o[2]]
             g == f.stem
             t == circ.gatetype[g]
         IN  (~is_branch(f) /\ t \in {"AND", "NAND", "OR", "NOR", "NOT", "BUFF"}) =>
               \A k \in 1..Len(circ.fanin[g]) :
                 LET fi == circ.fanin[g][k]
                     listed == FaninFault(circ, fi, g, TablePol(t, f.value))
                     other == FaninFault(circ, fi, g, 1 - TablePol(t, f.value))
                     eqs == Range(heap[id].equivalent)
                 IN  /\ other \notin eqs
                     /\ other \notin ChildReps(id)
                     /\ IF TableRel(t, f.value) = "equivalent"
                        THEN listed \in eqs /\ listed \notin ChildReps(id)
                        ELSE /\ listed \notin eqs
                             /\ Cardinality({j \in 1..Len(heap[id].dominated) :
                                   Representative(heap[id].dominated[j]) = listed}) = 1
    /\ (circ = NandCircuit /\ Collapsed) =>
         /\ Len(top_fcs) = 2
         /\ heap[top_fcs[1]].equivalent = <<Fault(0, 3, None)>>
         /\ ChildReps(top_fcs[1]) = {Fault(1, 1, None), Fault(1, 2, None)}
         /\ Len(heap[top_fcs[1]].dominated) = 2
         /\ Range(heap[top_fcs[2]].equivalent) =
               {Fault(1, 3, None), Fault(0, 1, None), Fault(0, 2, None)}
         /\ Len(heap[top_fcs[2]].equivalent) = 3
         /\ heap[top_fcs[2]].dominated = <<>>

C3_Witness ==
    /\ Collapsed
    /\ \E id \in ForestIds : \E g \in Gates(circ) :
         /\ circ.gatetype[g] = "NOR"
         /\ Fault(1, g, None) \in Range(heap[id].equivalent)
         /\ Len(heap[id].dominated) >= 2
         /\ Len(heap[id].equivalent) >= 2

\* C4 as the spec states it: the order listing of G = NAND(A, B) has 5 entries.
C4_FiveEntries == (circ = NandCircuit /\ Collapsed) => Len(ordered) = 5

\* C4, amended: the order listing of G = NAND(A, B) with output G has 4
\* entries: the SA0 root, its dominated classes A/1 and B/1, and the SA1 root.
C4_FourEntries ==
    (circ = NandCircuit /\ Collapsed) =>
       /\ Len(ordered) = 4
       /\ [i \in 1..4 |-> Representative(ordered[i])] =
            <<Fault(0, 3, None), Fault(1, 1, None), Fault(1, 2, None), Fault(1, 3, None)>>

C4_Witness == circ = NandCircuit /\ Collapsed /\ Len(ordered) > 0

BranchFaults == {f \in ForestFaults : is_branch(f)}

RootsOf(f) == {i \in 1..Len(top_fcs) : Representative(top_fcs[i]) = f}

\* C5: a branch fault on S->U ends the recursion: a class it represents has
\* no other member and no dominated child, a class it is a member of holds
\* no fault of a line into S, S is in the work set or already processed, and
\* at the end S has been processed once: one SA0 root and one SA1 root.
C5_BranchStopsStemQueued ==
    /\ \A id \in ForestIds :
         is_branch(Representative(id)) =>
            Len(heap[id].equivalent) = 1 /\ heap[id].dominated = <<>>
    /\ \A o \in Occurrences :
         LET f == heap[o[1]].equivalent[o[2]]
         IN  is_branch(f) =>
               \A k \in 1..Len(circ.fanin[f.stem]) : \A v \in {0, 1} :
                 LET up == FaninFault(circ, circ.fanin[f.stem][k], f.stem, v)
                 IN  up \notin Range(heap[o[1]].equivalent) /\ up \notin ChildReps(o[1])
    /\ \A f \in BranchFaults :
         /\ Len(Fanout(circ, f.stem)) > 1
         /\ f.stem \in gate_queue \/ flag[f.stem]
         /\ Collapsed =>
              \A v \in {0, 1} : Cardinality(RootsOf(Fault(v, f.stem, None))) = 1

C5_Witness ==
    /\ Collapsed
    /\ \E f \in BranchFaults : \E id \in ForestIds :
         /\ f \in Range(heap[id].equivalent)
         /\ f # Representative(id)
         /\ circ.gatetype[f.stem] # "INPUT"
         /\ f.stem \notin circ.outputs

\* C6: the classes form a forest: a class is in at most one dominated list,
\* at one place; a root is listed once and is in no dominated list; no class
\* is reached from its own dominated children.
C6_Forest ==
    /\ \A id \in 1..Len(heap) : Cardinality(ParentPlaces(id)) <= 1
    /\ \A i \in 1..Len(top_fcs) :
         /\ ParentPlaces(top_fcs[i]) = {}
         /\ \A j \in 1..Len(top_fcs) : top_fcs[i] = top_fcs[j] => i = j
    /\ \A id \in 1..Len(heap) : id \notin Reach(heap, Range(heap[id].dominated))

C6_Witness ==
    /\ Collapsed
    /\ \E id \in ForestIds : \E k \in Range(heap[id].dominated) :
          heap[k].dominated # <<>>

\* C7: every class of the checkpoint listing is in the plain not-dominating
\* listing, compared by representative fault.
C7_CheckpointSubset ==
    Collapsed =>
      \A i \in 1..Len(no_dominant_faults_check_points) :
        \E j \in 1..Len(no_dominant_faults) :
           Representative(no_dominant_faults[j]) =
              Representative(no_dominant_faults_check_points[i])

C7_Witness ==
    /\ Collapsed
    /\ Len(no_dominant_faults_check_points) > 0
    /\ Len(no_dominant_faults_check_points) < Len(no_dominant_faults)
    /\ \E i \in 1..Len(no_dominant_faults_check_points) :
         is_branch(Representative(no_dominant_faults_check_points[i]))

\* ------------------------------------------------------ implication laws
\* The gate equation of section 4.1 over the current fan-in values.
GateEquation(g) ==
    LET t == circ.gatetype[g]
        ins == Inputs(circ, val, g)
    IN  CASE t = "AND" -> operate(roth_mode, "AND", ins)
          [] t = "NAND" -> invert(operate(roth_mode, "AND", ins))
          [] t = "OR" -> operate(roth_mode, "OR", ins)
          [] t = "NOR" -> invert(operate(roth_mode, "OR", ins))
          [] t = "XOR" -> operate(roth_mode, "XOR", ins)
          [] t = "XNOR" -> invert(operate(roth_mode, "XOR", ins))
          [] t = "NOT" -> invert(ins[1])
          [] t = "BUFF" -> ins[1]
          [] OTHER -> X

AllFaninsDefinite(g) == \A f \in Range(circ.fanin[g]) : val[f] \in Definite

Consistent(stored, output) ==
    \/ stored = output
    \/ stored = D /\ output = One
    \/ stored = D_b /\ output = Zero

\* C8: forward soundness: while every Imply has returned True, a gate that
\* is not an INPUT and whose fan-ins are all definite stores a value
\* consistent with its gate equation (D accepted for 1, D-bar for 0).
C8_ForwardSound ==
    ipc = "run" =>
      \A g \in Gates(circ) :
         (circ.gatetype[g] # "INPUT" /\ AllFaninsDefinite(g)) =>
            Consistent(val[g], GateEquation(g))

\* C9: monotonicity: a command leaves every definite gate value as it was,
\* every assignment made inside an imply_and_check call, returning True or
\* False, is made to a gate at X, and a definite value it wrote is the
\* gate's value after the call.
C9_Monotone ==
    [][/\ \A g \in Gates(circ) : val[g] \in Definite => val'[g] = val[g]
       /\ \A i \in 1..Len(writes') :
            /\ writes'[i].old = X
            /\ writes'[i].new \in Definite => val'[writes'[i].gate] = writes'[i].new]_vars

C9_Witness ==
    /\ ipc = "exit"
    /\ last = [cmd |-> "Imply", valid |-> FALSE]
    /\ \E i \in 1..Len(writes) : \E j \in 1..Len(writes) :
         /\ writes[i].gate # writes[j].gate
         /\ writes[i].new \in Definite /\ writes[j].new \in Definite
         /\ val[writes[i].gate] = writes[i].new

\* C10: idempotence: an Imply(g, v) that returns True, issued again at once,
\* returns True and changes no gate value.
C10_Idempotent ==
    ipc = "run" =>
      \A g \in Gates(circ) : \A v \in Roth :
         LET r1 == Call(val, g, v)
         IN  r1.ret = "run" =>
               LET r2 == Call(r1.val, g, v)
               IN  r2.ret = "run" /\ r2.val = r1.val

C10_Witness ==
    /\ ipc = "run"
    /\ last = [cmd |-> "Imply", valid |-> TRUE]
    /\ Len(writes) >= 2
    /\ \E g \in Gates(circ) : \E v \in Definite :
         LET r == Call(val, g, v) IN r.ret = "run" /\ r.val = val

\* ------------------------------------------------------- fault absorption
\* The polarities of the active faults listed on line L.
FaultsOn(L) == {faults[i].value : i \in {j \in 1..Len(faults) : faults[j].stem = L}}

AllX == \A g \in Gates(circ) : val[g] = X

\* C11: D introduction: with an active fault of polarity p on line L and
\* every gate at X, Imply(L, not p) returns True and leaves L at D when
\* p = 0 and at D-bar when p = 1, whatever L drives.
C11_DIntroduction ==
    (ipc = "run" /\ AllX) =>
      \A L \in Gates(circ) : \A p \in {Zero, One} :
         FaultsOn(L) = {p} =>
           LET r == Call(val, L, invert(p))
           IN  /\ r.ret = "run"
               /\ r.val[L] = (IF p = Zero THEN D ELSE D_b)

C11_Witness ==
    /\ ipc = "run"
    /\ last = [cmd |-> "Imply", valid |-> TRUE]
    /\ \E L \in Gates(circ) :
         /\ FaultsOn(L) = {Zero}
         /\ Len(Fanout(circ, L)) > 0
         /\ Len(writes) > 1
         /\ writes[1] = [gate |-> L, old |-> X, new |-> D]
         /\ val[L] = D
         /\ \A i \in 1..Len(writes) : writes[i].gate # L => writes[i].new # X

\* C12: immediate conflict: with an active stuck-at-0 fault on L,
\* Imply(L, D-bar) returns False, and with an active stuck-at-1 fault on L,
\* Imply(L, D) returns False; the call changes no gate value.
C12_ImmediateConflict ==
    ipc = "run" =>
      \A L \in Gates(circ) : \A p \in {Zero, One} :
         FaultsOn(L) = {p} =>
           LET r == Call(val, L, IF p = Zero THEN D_b ELSE D)
           IN  r.ret = "False" /\ r.val = val /\ r.writes = <<>>

C12_Witness ==
    /\ ipc = "exit"
    /\ last = [cmd |-> "Imply", valid |-> FALSE]
    /\ writes = <<>>
    /\ faults # <<>>
    /\ \E L \in Gates(circ) : val[L] = X /\ FaultsOn(L) # {}
    /\ \E g \in Gates(circ) : val[g] \in {D, D_b}

\* --------------------------------------------------------- unique D-drive
\* The D-frontier of gate values v: the gates at X with a D or D-bar fan-in.
DFrontier(v) ==
    {g \in Gates(circ) : v[g] = X /\ \E f \in Range(circ.fanin[g]) : v[f] \in {D, D_b}}

NonControlling(t) == IF t \in {"AND", "NAND"} THEN One ELSE Zero

\* C13: unique D-drive: with -u, when the assignment an Imply makes on line L
\* leaves exactly one D-frontier gate g and L is a fan-in of g, the Imply
\* (if it returns True) leaves every fan-in of g that was at X at the
\* non-controlling value of g's type.
C13_UniqueDDrive ==
    (ipc = "run" /\ D_drive) =>
      \A L \in Gates(circ) : \A v \in Definite :
         LET new_output == new_output_of(fault_value_of(faults, L), v)
             v1 == [val EXCEPT ![L] = new_output]
             r == Call(val, L, v)
         IN  (/\ val[L] = X
              /\ new_output \in Roth
              /\ r.ret = "run")
             => \A g \in Gates(circ) :
                  (DFrontier(v1) = {g} /\ L \in Range(circ.fanin[g]))
                  => \A f \in Range(circ.fanin[g]) :
                       v1[f] = X => r.val[f] = NonControlling(circ.gatetype[g])

\* ------------------------------------------------------ frontier sections
\* The gate names of a section: its lines between the header and the closer.
SectionNames(out) == SubSeq(out, 2, Len(out) - 2)

\* The J-frontier of section 4.4: the gates other than INPUTs that hold a
\* definite value while their gate equation over the fan-ins yields X.
JFrontier ==
    {g \in Gates(circ) : /\ circ.gatetype[g] # "INPUT"
                         /\ val[g] \in Definite
                         /\ GateEquation(g) = X}

\* C14: the J-Frontier section lists gate g if and only if g is not an
\* INPUT, holds a definite value and its gate equation over the current
\* fan-in values yields X, for every gate type.
C14_JFrontier ==
    last.cmd = "Jfront" =>
      Range(SectionNames(last.out)) = {NameLine(g) : g \in JFrontier}

\* C15: the D-Frontier section lists gate g exactly once when g is at X and
\* has a fan-in at D or D-bar, and does not list it otherwise.
C15_DFrontier ==
    last.cmd = "Dfront" =>
      \A g \in Gates(circ) :
         Count(SectionNames(last.out), NameLine(g))
           = (IF g \in DFrontier(val) THEN 1 ELSE 0)

C15_Witness ==
    /\ last.cmd = "Dfront"
    /\ DFrontier(val) # {}
    /\ \E g \in Gates(circ) : g \notin DFrontier(val) /\ error_count(circ, val, g) > 0
    /\ Len(last.out) = 3 + Cardinality(DFrontier(val))

Header(cmd) ==
    CASE cmd = "Jfront" -> "J-Frontier"
      [] cmd = "Dfront" -> "D-Frontier"
      [] cmd = "Xpath" -> "X-PATH"

\* C16: every section written by Jfront, Dfront and Xpath is its header
\* line, gate names one per line, then a "$" line and a blank line.
C16_SectionFormat ==
    last.cmd \in {"Jfront", "Dfront", "Xpath"} =>
      LET out == last.out
      IN  /\ Len(out) >= 3
          /\ out[1] = Header(last.cmd)
          /\ out[Len(out) - 1] = "$"
          /\ out[Len(out)] = ""
          /\ \A i \in 2..(Len(out) - 2) : out[i] \in {NameLine(g) : g \in Gates(circ)}

\* ----------------------------------------------------------------- X-path
\* Gate h lets a fault effect arriving from g through: it has a fan-in at X
\* besides g, or it is a NOT.
LetsThrough(g, h) ==
    \/ circ.gatetype[h] = "NOT"
    \/ \E f \in Range(circ.fanin[h]) : f # g /\ val[f] = X

\* An X-path from g: g is a primary output, or a fan-out of g lets the
\* effect through and has an X-path itself.
RECURSIVE XPathFrom(_)
XPathFrom(g) ==
    \/ g \in circ.outputs
    \/ \E h \in Range(Fanout(circ, g)) : LetsThrough(g, h) /\ XPathFrom(h)

\* C17: the X-PATH section names every D-frontier gate that has an X-path,
\* not only the first one in gate-map order.
C17_XpathAll ==
    last.cmd = "Xpath" =>
      \A g \in DFrontier(val) :
         XPathFrom(g) => \E i \in 2..Len(last.out) : last.out[i] = NameLine(g)

\* ------------------------------------------------------------- the driver
\* The last command was an Imply that returned False.
Conflicted == ipc # "RecursionError" /\ last.cmd = "Imply" /\ last.valid = FALSE

\* C18: a conflict is final: after an Imply that returned False no command
\* runs: no Fault is appended, no gate value changes and nothing more is
\* written to the report.
C18_ConflictFinal == [][Conflicted => UNCHANGED <<faults, val, last, writes>>]_vars

C18_Witness ==
    /\ Conflicted
    /\ ipc = "exit"
    /\ writes # <<>>
    /\ faults # <<>>

\* C19: the exit status is 0 when every Imply returned True and the command
\* stream ended, and non-zero when an Imply returned False.
C19_ExitStatus ==
    /\ ipc = "end" => status = <<0>>
    /\ Conflicted => (status # <<>> /\ status[1] # 0)

\* C20: every call of imply_and_check returns True or False: no Imply
\* command ends in a RecursionError.
C20_Terminates == ipc # "RecursionError"

\* --------------------------------------------------------- XOR and XNOR
\* The XOR and XNOR gates whose output fault of some polarity is in the forest.
ParityGatesReached ==
    {g \in Gates(circ) : /\ circ.gatetype[g] \in {"XOR", "XNOR"}
                         /\ \E v \in {0, 1} : Fault(v, g, None) \in ForestFaults}

\* The places of the top-level list whose class has representative f.
TopPlaces(f) == {i \in 1..Len(top_fcs) : Representative(top_fcs[i]) = f}

\* C21: for an XOR or XNOR gate g whose output fault is collapsed, no fault
\* of a line into g is in the owner's equivalent list or heads one of its
\* dominated classes; for a fan-in that drives more than one gate, the
\* branch faults SA0 and SA1 on the edge into g are each the representative
\* of exactly one top-level class; and every fan-in of g is in the work set
\* or already processed.
C21_ParityGate ==
    /\ \A o \in Occurrences :
         LET f == heap[o[1]].equivalent[o[2]]
         IN  (~is_branch(f) /\ circ.gatetype[f.stem] \in {"XOR", "XNOR"}) =>
               \A k \in 1..Len(circ.fanin[f.stem]) : \A v \in {0, 1} :
                 LET up == FaninFault(circ, circ.fanin[f.stem][k], f.stem, v)
                 IN  up \notin Range(heap[o[1]].equivalent) /\ up \notin ChildReps(o[1])
    /\ \A g \in ParityGatesReached : \A fi \in Range(circ.fanin[g]) :
         /\ fi \in gate_queue \/ flag[fi]
         /\ Len(Fanout(circ, fi)) > 1 =>
              \A v \in {0, 1} : Cardinality(TopPlaces(Fault(v, fi, g))) = 1

\* ------------------------------------------------------ the order listing
\* The places of class id in the order listing.
OrderPlaces(id) == {i \in 1..Len(ordered) : ordered[i] = id}

Pos(id) == CHOOSE i \in OrderPlaces(id) : TRUE

\* The dominated subtree of class id, id included.
Subtree(id) == Reach(heap, {id})

\* C22: the order listing is a pre-order walk of the forest: every class of
\* the forest is listed exactly once, a class comes before every class of
\* its dominated subtree, the subtrees of its children come in the order of
\* its dominated list, and the trees come in the order of the top-level list.
C22_PreOrder ==
    Collapsed =>
      /\ \A id \in ForestIds : Cardinality(OrderPlaces(id)) = 1
      /\ Range(ordered) = ForestIds
      /\ \A id \in ForestIds : \A d \in Subtree(id) \ {id} : Pos(id) < Pos(d)
      /\ \A id \in ForestIds :
           \A i \in 1..Len(heap[id].dominated) : \A j \in 1..Len(heap[id].dominated) :
              i < j => \A d \in Subtree(heap[id].dominated[i]) :
                          Pos(d) < Pos(heap[id].dominated[j])
      /\ \A i \in 1..Len(top_fcs) : \A j \in 1..Len(top_fcs) :
           i < j => \A d \in Subtree(top_fcs[i]) : Pos(d) < Pos(top_fcs[j])

C22_Witness ==
    /\ Collapsed
    /\ Len(top_fcs) > 2
    /\ \E id \in ForestIds :
         /\ Len(heap[id].dominated) > 1
         /\ \E k \in Range(heap[id].dominated) : Len(heap[k].dominated) > 0
         /\ Pos(id) > 1

\* ------------------------------------------------- the checkpoint listing
\* A checkpoint fault: a branch fault or a fault on a primary-input stem.
IsCheckpointFault(f) == is_branch(f) \/ circ.gatetype[f.stem] = "INPUT"

\* C23: the checkpoint walk collects every class the plain walk collects
\* (every class with an empty dominated list) and every class of the forest
\* whose representative is a branch fault or a fault on a primary-input stem.
C23_CheckpointCollects ==
    Collapsed =>
      /\ Range(no_dominant_faults) \subseteq Range(no_dominant_faults_check_points)
      /\ \A id \in ForestIds :
           IsCheckpointFault(Representative(id))
             => id \in Range(no_dominant_faults_check_points)

\* ------------------------------------------- forward step, decided fan-out
\* C24: forward step on a decided fan-out: when the only fan-out h of a
\* primary input L just assigned evaluates to X and already holds a definite
\* value w, the Imply on L does what implying w on h with direction BACKWARD
\* does: the same result and the same gate values.
C24_DecidedFanout ==
    (ipc = "run" /\ ~D_drive) =>
      \A L \in Gates(circ) : \A v \in Definite :
         LET new_output == new_output_of(fault_value_of(faults, L), v)
             v1 == [val EXCEPT ![L] = new_output]
         IN  (/\ circ.gatetype[L] = "INPUT"
              /\ val[L] = X
              /\ new_output \in Roth
              /\ Len(Fanout(circ, L)) = 1)
             => LET h == Fanout(circ, L)[1]
                IN  (/\ val[h] \in Definite
                     /\ FaultsOn(h) = {}
                     /\ evaluate(roth_mode, circ.gatetype[h],
                                 Inputs(circ, v1, h), new_output) = X)
                    => LET expect == imply_and_check(Env,
                                       [val |-> v1, writes |-> <<>>, ret |-> "run"],
                                       h, val[h], "BACKWARD", 2)
                           r == Call(val, L, v)
                       IN  r.ret = expect.ret /\ r.val = expect.val

\* ------------------------------------ backward justification, forced inputs
\* The output values of a gate of type t that force every fan-in, and the
\* value they force.
ForcingOutputs(t) ==
    CASE t = "AND" -> {One, D}
      [] t = "NAND" -> {Zero, D_b}
      [] t = "OR" -> {Zero, D_b}
      [] t = "NOR" -> {One, D}
      [] OTHER -> {}

Forced(t) == IF t \in {"AND", "NAND"} THEN 1 ELSE 0

\* C25: a successful Imply on an AND, NAND, OR or NOR gate g at X that leaves
\* g holding its all-inputs-forcing value assigns the forced value to every
\* fan-in of g that was X, whatever definite values the other fan-ins hold.
C25_NonControllingForced ==
    ipc = "run" =>
      \A g \in Gates(circ) : \A v \in Definite :
         (val[g] = X /\ ForcingOutputs(circ.gatetype[g]) # {}) =>
            LET r == Call(val, g, v)
            IN  (r.ret = "run" /\ r.val[g] \in ForcingOutputs(circ.gatetype[g]))
                => \A f \in Range(circ.fanin[g]) :
                      val[f] = X =>
                         /\ r.val[f] \in Definite
                         /\ Good(r.val[f]) = Forced(circ.gatetype[g])

\* ------------------------------------------ backward justification, parity
\* Number of fan-in positions of g holding w in gate values v.
FaninCount(v, g, w) ==
    Cardinality({i \in 1..Len(circ.fanin[g]) : v[circ.fanin[g][i]] = w})

\* The parity of the 1s among the fan-ins that the output value out of a
\* gate of type t asks for: 1 for odd, 0 for even.
WantedParity(t, out) ==
    IF t = "XOR" THEN Good(out) ELSE 1 - Good(out)

\* C26: a successful Imply on an XOR or XNOR gate g at X with exactly one
\* fan-in at X and no fan-in at D or D-bar leaves the X fan-in with the value
\* that makes the parity of the 1s among the fan-ins agree with g's value.
C26_ParityJustified ==
    ipc = "run" =>
      \A g \in Gates(circ) : \A v \in Definite :
         (/\ circ.gatetype[g] \in {"XOR", "XNOR"}
          /\ val[g] = X
          /\ FaninCount(val, g, X) = 1
          /\ FaninCount(val, g, D) = 0
          /\ FaninCount(val, g, D_b) = 0)
         => LET r == Call(val, g, v)
            IN  r.ret = "run" =>
                  /\ FaninCount(r.val, g, X) = 0
                  /\ FaninCount(r.val, g, D) = 0
                  /\ FaninCount(r.val, g, D_b) = 0
                  /\ FaninCount(r.val, g, One) % 2 = WantedParity(circ.gatetype[g], r.val[g])

\* ---------------------------------------------------- no spurious conflict
\* The 0/1 assignments a to all gates that satisfy every gate equation.
Satisfies(a) ==
    \A g \in Gates(circ) :
       circ.gatetype[g] # "INPUT" =>
          a[g] = evaluate(roth_mode, circ.gatetype[g], Inputs(circ, a, g),
                          a[circ.fanin[g][1]])

\* Some satisfying assignment agrees with the definite values of v and gives
\* location the value w.
Satisfiable(v, location, w) ==
    \E a \in [Gates(circ) -> {Zero, One}] :
       /\ Satisfies(a)
       /\ a[location] = w
       /\ \A g \in Gates(circ) : v[g] \in Definite => a[g] = v[g]

NoFaultEffect == \A g \in Gates(circ) : val[g] \in {Zero, One, X}

\* C27: no spurious conflict: with no active fault and no D or D-bar stored,
\* after successful Implies only, an Imply(location, v) with v 0 or 1 that
\* returns False has no satisfying 0/1 assignment that agrees with the
\* stored definite values and gives location the value v.
C27_NoSpuriousConflict ==
    (ipc = "run" /\ faults = <<>> /\ NoFaultEffect) =>
      \A location \in Gates(circ) : \A v \in {Zero, One} :
         Call(val, location, v).ret = "False" => ~Satisfiable(val, location, v)

\* ----------------------------------------- unique D-drive without a fault
\* imply_and_check(circ, faults, loc, value, d, "BOTH") from gate values v.
CallWithDrive(d, v, loc, value) ==
    imply_and_check([c |-> circ, faults |-> faults, D_drive |-> d, mode |-> roth_mode],
                    [val |-> v, writes |-> <<>>, ret |-> "run"], loc, value, "BOTH", 1)

\* C28: with no active fault and no gate holding D or D-bar, an Imply of 0 or
\* 1 returns the same result and leaves the same gate values with unique
\* D-drive enabled as with it disabled.
C28_DriveNoEffect ==
    (ipc = "run" /\ faults = <<>> /\ NoFaultEffect) =>
      \A location \in Gates(circ) : \A v \in {Zero, One} :
         LET on == CallWithDrive(TRUE, val, location, v)
             off == CallWithDrive(FALSE, val, location, v)
         IN  on.ret = off.ret /\ on.val = off.val
====
